---- MODULE Spec2Model ----
(***************************************************************************)
(* Model of app_big.py: the Streamlit dashboard that joins the IDEB 2023   *)
(* and Censo 2023 tables of the BigQuery dataset dados_educacionais_es,    *)
(* prepares the joined dataframe and renders one section per script run.   *)
(*                                                                         *)
(* Cell values are tagged records: Null (SQL NULL / None / NaN), Num(k)    *)
(* and Str(s), s a sequence of one-character strings.  Scores (IDEB) are   *)
(* kept in hundredths, so 5.8 is 580.  A dataframe is a record             *)
(* [cols, rows]: the set of column labels and the sequence of rows, each   *)
(* row a function from cols to values.                                     *)
(***************************************************************************)
EXTENDS Integers, Sequences, FiniteSets, TLC

VARIABLES
    ideb_table,               \* warehouse table ideb_2023 (t1)
    censo_table,              \* warehouse table censo_2023 (t2)
    mapa_table,               \* warehouse table limites_municipais_es
    falha,                    \* how _client.query / to_dataframe fail right now
    now,                      \* wall clock, seconds
    cache,                    \* st.cache_data entries, by function and arguments
    df,                       \* df of load_and_prepare_data right after line 282
    df_completo,              \* the prepared base dataset (line 311)
    municipios_selecionados,  \* value of the sidebar multiselect (line 331/338)
    df_filtrado,              \* the filtered view (line 341)
    secao,                    \* value of the sidebar radio (line 343)
    tela,                     \* what the last script run rendered
    chamadas                  \* run_query invocations of the last script run

vars == <<ideb_table, censo_table, mapa_table, falha, now, cache, df,
          df_completo, municipios_selecionados, df_filtrado, secao, tela,
          chamadas>>

warehouse == <<ideb_table, censo_table, mapa_table>>

(***************************** bounds *************************************)
MaxIdeb == 2       \* rows of ideb_2023
MaxCenso == 2      \* rows of censo_2023
MaxTime == 3600    \* the clock stops here

(***************************** values *************************************)
Null == [t |-> "null", n |-> 0, s |-> <<>>]
Num(k) == [t |-> "num", n |-> k, s |-> <<>>]
Str(x) == [t |-> "str", n |-> 0, s |-> x]

\* pd.isnull
IsNull(v) == v.t = "null"

DigitChars == <<"0", "1", "2", "3", "4", "5", "6", "7", "8", "9">>

DigitOf(ch) == (CHOOSE i \in 1..10 : DigitChars[i] = ch) - 1

IsDigit(ch) == \E i \in 1..10 : DigitChars[i] = ch

RECURSIVE Digits(_)
\* decimal text of a natural number
Digits(k) ==
    IF k < 10 THEN <<DigitChars[k + 1]>>
    ELSE Digits(k \div 10) \o <<DigitChars[(k % 10) + 1]>>

\* SQL CAST(x AS STRING): NULL stays NULL, an INT64 becomes its decimal text
CastString(v) ==
    IF v.t = "num" THEN Str(Digits(v.n)) ELSE v

RECURSIVE Strip(_)
\* leading and trailing blanks removed
Strip(s) ==
    IF s = <<>> THEN s
    ELSE IF Head(s) = " " THEN Strip(Tail(s))
    ELSE IF s[Len(s)] = " " THEN Strip(SubSeq(s, 1, Len(s) - 1))
    ELSE s

RECURSIVE DecimalValue(_)
DecimalValue(s) ==
    IF s = <<>> THEN 0
    ELSE 10 * DecimalValue(SubSeq(s, 1, Len(s) - 1)) + DigitOf(s[Len(s)])

\* pd.to_numeric(value, errors='ignore'): text that does not parse is kept
ToNumericIgnore(v) ==
    IF v.t = "str"
    THEN LET s == Strip(v.s)
         IN  IF s # <<>> /\ \A i \in 1..Len(s) : IsDigit(s[i])
             THEN Num(DecimalValue(s))
             ELSE v
    ELSE v

\* pd.to_numeric(value, errors='coerce') on one cell
ToNumeric(v) ==
    IF v.t = "str"
    THEN LET s == Strip(v.s)
         IN  IF s # <<>> /\ \A i \in 1..Len(s) : IsDigit(s[i])
             THEN Num(DecimalValue(s))
             ELSE Null
    ELSE v

(***************************** dataframes *********************************)
EmptyDF == [cols |-> {}, rows |-> <<>>]

\* DataFrame.empty: no rows or no columns
Empty(d) == d.cols = {} \/ d.rows = <<>>

Range(f) == {f[i] : i \in DOMAIN f}

RECURSIVE SeqsUpTo(_, _)
\* the tables of at most n rows drawn from S
SeqsUpTo(S, n) ==
    IF n = 0 THEN {<<>>}
    ELSE LET shorter == SeqsUpTo(S, n - 1)
         IN  shorter \cup {Append(q, r) : q \in {x \in shorter : Len(x) = n - 1}, r \in S}

RECURSIVE Flatten(_)
Flatten(ss) == IF ss = <<>> THEN <<>> ELSE Head(ss) \o Flatten(Tail(ss))

(***************************** warehouse **********************************)
\* columns of ideb_2023 (t1.*) and of censo_2023
IdebCols ==
    {"cod_munic", "nome_munic", "ideb_2023", "nota_saeb_media_2023",
     "tx_aprov_2023_1_ao_5_ano"}

\* the t2 columns the join query selects (lines 275-277)
CensoSelect ==
    {"total_estimar_escolas", "escolas_com_internet", "escolas_com_lab_informatica",
     "escolas_com_biblioteca", "escolas_com_quadra_esportes",
     "escolas_com_banheiro_acessivel_pne", "pct_escolas_com_internet",
     "alunos_por_docente", "alunos_por_turma"}

CensoCols == CensoSelect \cup {"cod_munic"}

MapaCols == {"cod_munic", "NM_MUN", "geometry"}

IdebRow(cod, nome, ideb, saeb, tx) ==
    [c \in IdebCols |->
        CASE c = "cod_munic" -> cod
          [] c = "nome_munic" -> Str(<<nome>>)
          [] c = "ideb_2023" -> ideb
          [] c = "nota_saeb_media_2023" -> saeb
          [] OTHER -> tx]

CensoRow(cod, total, internet, lab, bib, quadra, pne, pct, docente, turma) ==
    [c \in CensoCols |->
        CASE c = "cod_munic" -> cod
          [] c = "total_estimar_escolas" -> total
          [] c = "escolas_com_internet" -> internet
          [] c = "escolas_com_lab_informatica" -> lab
          [] c = "escolas_com_biblioteca" -> bib
          [] c = "escolas_com_quadra_esportes" -> quadra
          [] c = "escolas_com_banheiro_acessivel_pne" -> pne
          [] c = "pct_escolas_com_internet" -> pct
          [] c = "alunos_por_docente" -> docente
          [] OTHER -> turma]

MapaRow(cod, nome, geometry) ==
    [c \in MapaCols |->
        CASE c = "cod_munic" -> cod
          [] c = "NM_MUN" -> Str(<<nome>>)
          [] OTHER -> geometry]

\* rows the ideb_2023 table is drawn from: two municipalities and a row with
\* no code that repeats a name (a table may also hold a row twice)
IdebRows ==
    {IdebRow(Num(1), "A", Num(579), Num(210), Num(95)),
     IdebRow(Num(2), "B", Num(650), Null, Str(<<"9", "x">>)),
     IdebRow(Null, "A", Null, Num(220), Num(90))}

\* rows the censo_2023 table is drawn from: the code is text here; counts that
\* are numbers, zero, text, blank-padded text, unparseable text or missing
CensoRows ==
    {CensoRow(Str(<<"1">>), Num(10), Num(5), Num(2), Num(1), Num(4), Num(3),
              Num(50), Num(20), Num(25)),
     CensoRow(Str(<<"2">>), Num(0), Num(0), Num(0), Num(0), Num(0), Num(0),
              Num(0), Null, Null),
     CensoRow(Str(<<"2">>), Str(<<"1", "0">>), Str(<<" ", "7">>), Str(<<"x">>),
              Str(<<>>), Str(<<"5", " ">>), Null, Str(<<"7", "0">>),
              Num(18), Str(<<" ">>))}

\* a fixed ideb_2023 with one score on each side of both colour thresholds
AmostraIdeb ==
    <<IdebRow(Num(1), "A", Num(579), Num(210), Num(95)),
      IdebRow(Num(2), "A", Num(580), Num(215), Num(96)),
      IdebRow(Num(3), "B", Num(649), Num(220), Num(97)),
      IdebRow(Num(4), "B", Num(650), Num(230), Num(98))>>

AmostraCenso ==
    <<CensoRow(Str(<<"1">>), Num(10), Num(5), Num(2), Num(1), Num(4), Num(3),
               Num(50), Num(20), Num(25)),
      CensoRow(Str(<<"3">>), Num(0), Num(0), Num(0), Num(0), Num(0), Num(0),
               Num(0), Null, Null)>>

MapaES ==
    <<MapaRow(Str(<<"1">>), "A", Str(<<"P">>)),
      MapaRow(Str(<<"2">>), "B", Str(<<"P">>)),
      MapaRow(Str(<<"3">>), "C", Str(<<"P">>)),
      MapaRow(Str(<<"4">>), "D", Str(<<"P">>)),
      MapaRow(Str(<<"2">>), "E", Null)>>

\* SQL equality: NULL = anything is not true
SqlEq(a, b) == ~IsNull(a) /\ ~IsNull(b) /\ a = b

\* the ON clause left out: every pair of rows joins
OnEveryRow(r1, r2) == TRUE

\* ON CAST(t1.cod_munic AS STRING) = CAST(t2.cod_munic AS STRING)
OnCodMunic(r1, r2) == SqlEq(CastString(r1["cod_munic"]), CastString(r2["cod_munic"]))

\* JOIN instead of LEFT JOIN: a t1 row without a match is dropped
InnerJoinRow(r1, t2) ==
    LET matches == SelectSeq(t2, LAMBDA r2 : SqlEq(CastString(r1["cod_munic"]),
                                                   CastString(r2["cod_munic"])))
    IN  [j \in 1..Len(matches) |->
            [c \in IdebCols \cup CensoSelect |->
                IF c \in IdebCols THEN r1[c] ELSE matches[j][c]]]

\* one t1 row of the LEFT JOIN: a row per matching t2 row, or one row with the
\* t2 columns NULL
LeftJoinRow(r1, t2) ==
    LET matches == SelectSeq(t2, LAMBDA r2 : OnCodMunic(r1, r2))
        joined(r2) == [c \in IdebCols \cup CensoSelect |->
                          IF c \in IdebCols THEN r1[c] ELSE r2[c]]
        alone == [c \in IdebCols \cup CensoSelect |->
                          IF c \in IdebCols THEN r1[c] ELSE Null]
    IN  IF matches = <<>> THEN <<alone>>
        ELSE [j \in 1..Len(matches) |-> joined(matches[j])]

\* the query of lines 272-281, rows in t1 order then t2 order
JoinQuery(t1, t2) ==
    [cols |-> IdebCols \cup CensoSelect,
     rows |-> Flatten([i \in 1..Len(t1) |-> LeftJoinRow(t1[i], t2)])]

\* query_mapa, lines 383-388: inner JOIN of the boundaries with ideb_2023
MapaQuery(m, t2) ==
    LET line(r1) ==
            LET matches == SelectSeq(t2, LAMBDA r2 : OnCodMunic(r1, r2))
            IN  [j \in 1..Len(matches) |->
                    [municipio |-> r1["NM_MUN"], geometry |-> r1["geometry"],
                     nota_ideb |-> matches[j]["ideb_2023"]]]
    IN  [cols |-> {"municipio", "geometry", "nota_ideb"},
         rows |-> Flatten([i \in 1..Len(m) |-> line(m[i])])]

\* SELECT * FROM a table (lines 358, 369)
SelectAll(cols, t) == [cols |-> cols, rows |-> t]

Queries == {"join", "censo", "ideb", "mapa"}

\* what the warehouse answers to each query text when it answers
Execute(q) ==
    CASE q = "join" -> JoinQuery(ideb_table, censo_table)
      [] q = "censo" -> SelectAll(CensoCols, censo_table)
      [] q = "ideb" -> SelectAll(IdebCols, ideb_table)
      [] OTHER -> MapaQuery(mapa_table, ideb_table)

(***************************** data preparation ***************************)
\* lines 284-290
numeric_cols ==
    {"ideb_2023", "nota_saeb_media_2023", "tx_aprov_2023_1_ao_5_ano",
     "total_estimar_escolas", "escolas_com_internet", "escolas_com_lab_informatica",
     "escolas_com_biblioteca", "escolas_com_quadra_esportes",
     "escolas_com_banheiro_acessivel_pne", "pct_escolas_com_internet",
     "alunos_por_docente", "alunos_por_turma"}

\* the catalog with one label pasted twice
friendly_names_dup ==
    [k \in numeric_cols \cup {"nome_munic"} |->
        CASE k = "nome_munic" -> "Município"
          [] k = "ideb_2023" -> "Nota IDEB 2023"
          [] k = "nota_saeb_media_2023" -> "Nota Média SAEEB 2023"
          [] k = "tx_aprov_2023_1_ao_5_ano" -> "Taxa de Aprovação (1º-5º ano)"
          [] k = "total_estimar_escolas" -> "Total de Escolas"
          [] k = "escolas_com_internet" -> "Nº Escolas c/ Internet"
          [] k = "escolas_com_lab_informatica" -> "Nº Escolas c/ Lab. de Informática"
          [] k = "escolas_com_biblioteca" -> "Nº Escolas c/ Biblioteca"
          [] k = "escolas_com_quadra_esportes" -> "Nº Escolas c/ Quadra"
          [] k = "escolas_com_banheiro_acessivel_pne" -> "Nº Escolas c/ Acessibilidade"
          [] k = "pct_escolas_com_internet" -> "% Escolas com Internet"
          [] k = "alunos_por_docente" -> "Média de Alunos por Docente"
          [] OTHER -> "Média de Alunos por Docente"]

\* lines 295-303
friendly_names ==
    [k \in numeric_cols \cup {"nome_munic"} |->
        CASE k = "nome_munic" -> "Município"
          [] k = "ideb_2023" -> "Nota IDEB 2023"
          [] k = "nota_saeb_media_2023" -> "Nota Média SAEEB 2023"
          [] k = "tx_aprov_2023_1_ao_5_ano" -> "Taxa de Aprovação (1º-5º ano)"
          [] k = "total_estimar_escolas" -> "Total de Escolas"
          [] k = "escolas_com_internet" -> "Nº Escolas c/ Internet"
          [] k = "escolas_com_lab_informatica" -> "Nº Escolas c/ Lab. de Informática"
          [] k = "escolas_com_biblioteca" -> "Nº Escolas c/ Biblioteca"
          [] k = "escolas_com_quadra_esportes" -> "Nº Escolas c/ Quadra"
          [] k = "escolas_com_banheiro_acessivel_pne" -> "Nº Escolas c/ Acessibilidade"
          [] k = "pct_escolas_com_internet" -> "% Escolas com Internet"
          [] k = "alunos_por_docente" -> "Média de Alunos por Docente"
          [] OTHER -> "Média de Alunos por Turma"]

\* the label DataFrame.rename gives a column: unmapped columns keep their name
Label(c) == IF c \in DOMAIN friendly_names THEN friendly_names[c] ELSE c

\* the keys of friendly_names in the order the dict literal gives them
friendly_keys ==
    <<"nome_munic", "ideb_2023", "nota_saeb_media_2023", "tx_aprov_2023_1_ao_5_ano",
      "total_estimar_escolas", "escolas_com_internet", "escolas_com_lab_informatica",
      "escolas_com_biblioteca", "escolas_com_quadra_esportes",
      "escolas_com_banheiro_acessivel_pne", "pct_escolas_com_internet",
      "alunos_por_docente", "alunos_por_turma">>

\* {v: k for k, v in friendly_names.items()}[l], the idiom of line 504 over
\* the whole catalog: of the keys carrying label l, the last one wins
ReverseLookup(l) ==
    LET carrying == {i \in DOMAIN friendly_keys : friendly_names[friendly_keys[i]] = l}
    IN  friendly_keys[CHOOSE i \in carrying : \A m \in carrying : m <= i]

\* lines 291-293: pd.to_numeric on every listed column the frame has
Coerce(d) ==
    [cols |-> d.cols,
     rows |-> [i \in 1..Len(d.rows) |->
                 [c \in d.cols |->
                     IF c \in numeric_cols THEN ToNumeric(d.rows[i][c])
                     ELSE d.rows[i][c]]]]

\* line 304: df.rename(columns=friendly_names)
Rename(d) ==
    [cols |-> {Label(c) : c \in d.cols},
     rows |-> [i \in 1..Len(d.rows) |->
                 [l \in {Label(c) : c \in d.cols} |->
                     d.rows[i][CHOOSE c \in d.cols : Label(c) = l]]]]

(***************************** cache and queries **************************)
\* ttl of st.cache_data, seconds
TTL == 3600

CacheKeys == Queries \cup {"load_and_prepare_data"}

NoEntry == [tem |-> FALSE, valor |-> EmptyDF, em |-> 0]

\* st.cache_data without ttl: an entry answers for ever
FreshForever(c, k) == c[k].tem

\* st.cache_data: an entry answers while it is younger than ttl
Fresh(c, k) == c[k].tem /\ now - c[k].em < TTL

Store(c, k, v) == [c EXCEPT ![k] = [tem |-> TRUE, valor |-> v, em |-> now]]

\* "erro": _client.query or to_dataframe raises (network, credentials, SQL)
Falhas == {"nenhuma", "erro"}

\* run_query retrying once before it gives up
run_query_body_retry(q) ==
    IF falha = "nenhuma"
    THEN [df |-> Execute(q), submits |-> 1, st_error |-> FALSE, raised |-> FALSE]
    ELSE [df |-> EmptyDF, submits |-> 2, st_error |-> TRUE, raised |-> FALSE]

\* body of run_query, lines 259-265: one _client.query; a failure of it or of
\* to_dataframe is caught, reported with st.error and answered with pd.DataFrame()
run_query_body(q) ==
    IF falha = "nenhuma"
    THEN [df |-> Execute(q), submits |-> 1, st_error |-> FALSE, raised |-> FALSE]
    ELSE [df |-> EmptyDF, submits |-> 1, st_error |-> TRUE, raised |-> FALSE]

\* run_query keeping only the answers of queries that succeeded
run_query_skips_failures(c, q) ==
    IF Fresh(c, q)
    THEN [cache |-> c, df |-> c[q].valor,
          chamada |-> [query |-> q, hit |-> TRUE, falhou |-> FALSE, submits |-> 0,
                       st_error |-> FALSE, raised |-> FALSE, vazio |-> Empty(c[q].valor)]]
    ELSE LET r == run_query_body(q)
         IN  [cache |-> IF falha = "nenhuma" THEN Store(c, q, r.df) ELSE c, df |-> r.df,
              chamada |-> [query |-> q, hit |-> FALSE, falhou |-> falha # "nenhuma",
                           submits |-> r.submits, st_error |-> r.st_error,
                           raised |-> r.raised, vazio |-> Empty(r.df)]]

\* run_query under @st.cache_data(ttl=3600), keyed by the query text
run_query(c, q) ==
    IF Fresh(c, q)
    THEN [cache |-> c, df |-> c[q].valor,
          chamada |-> [query |-> q, hit |-> TRUE, falhou |-> FALSE, submits |-> 0,
                       st_error |-> FALSE, raised |-> FALSE, vazio |-> Empty(c[q].valor)]]
    ELSE LET r == run_query_body(q)
         IN  [cache |-> Store(c, q, r.df), df |-> r.df,
              chamada |-> [query |-> q, hit |-> FALSE, falhou |-> falha # "nenhuma",
                           submits |-> r.submits, st_error |-> r.st_error,
                           raised |-> r.raised, vazio |-> Empty(r.df)]]

\* load_and_prepare_data with the rename of line 304 moved above the
\* coercion loop of lines 291-293
load_and_prepare_data_rename_first(c) ==
    IF Fresh(c, "load_and_prepare_data")
    THEN [cache |-> c, df |-> df, df_completo |-> c["load_and_prepare_data"].valor,
          chamadas |-> <<>>]
    ELSE LET r == run_query(c, "join")
             prepared == Coerce(Rename(r.df))
         IN  [cache |-> Store(r.cache, "load_and_prepare_data", prepared),
              df |-> r.df, df_completo |-> prepared, chamadas |-> <<r.chamada>>]

\* load_and_prepare_data under @st.cache_data(ttl=3600), lines 267-305; its
\* cached arguments are constants of the script
load_and_prepare_data(c) ==
    IF Fresh(c, "load_and_prepare_data")
    THEN [cache |-> c, df |-> df, df_completo |-> c["load_and_prepare_data"].valor,
          chamadas |-> <<>>]
    ELSE LET r == run_query(c, "join")
             prepared == Rename(Coerce(r.df))
         IN  [cache |-> Store(r.cache, "load_and_prepare_data", prepared),
              df |-> r.df, df_completo |-> prepared, chamadas |-> <<r.chamada>>]

(***************************** sidebar ************************************)
\* line 330: the distinct names offered by the multiselect (the order of the
\* options is presentation only)
lista_municipios(base) == {base.rows[i]["Município"] : i \in 1..Len(base.rows)}

\* the sidebar without the else branch of lines 336-338: over an empty base
\* the selection of the run before may stand
SelectionsStale(base) ==
    IF ~Empty(base) THEN SUBSET lista_municipios(base)
    ELSE {{}, municipios_selecionados}

\* what the multiselect can return: lines 329-338
Selections(base) ==
    IF ~Empty(base) THEN SUBSET lista_municipios(base) ELSE {{}}

\* isin applied whatever the selection: an empty selection shows nothing
FilterAlways(base, sel) ==
    [cols |-> base.cols,
     rows |-> IF Empty(base) THEN base.rows
              ELSE SelectSeq(base.rows, LAMBDA r : r["Município"] \in sel)]

\* the mask inverted: the rows outside the selection
FilterInverted(base, sel) ==
    IF sel # {}
    THEN [cols |-> base.cols,
          rows |-> SelectSeq(base.rows, LAMBDA r : r["Município"] \notin sel)]
    ELSE base

\* line 341
Filter(base, sel) ==
    IF sel # {}
    THEN [cols |-> base.cols,
          rows |-> SelectSeq(base.rows, LAMBDA r : r["Município"] \in sel)]
    ELSE base

(***************************** sections ***********************************)
Secoes ==
    {"Página Inicial", "Visão Geral", "Análise de Infraestrutura",
     "Análise de Correlação", "Análise Comparativa", "Dados Detalhados"}

\* pandas sum of a column: missing values are skipped
RECURSIVE SumSeq(_)
SumSeq(q) ==
    IF q = <<>> THEN 0
    ELSE (IF Head(q).t = "num" THEN Head(q).n ELSE 0) + SumSeq(Tail(q))

Column(d, c) == [i \in 1..Len(d.rows) |-> d.rows[i][c]]

Sum(d, c) == SumSeq(Column(d, c))

\* pandas mean of a column as the fraction <<sum, count>> over the values
\* present; <<0, 0>> is NaN
Mean(d, c) ==
    <<Sum(d, c), Len(SelectSeq(Column(d, c), LAMBDA v : v.t = "num"))>>

NoKpi ==
    [mostra |-> FALSE, internet |-> <<0, 1>>, lab |-> <<0, 1>>,
     quadra |-> <<0, 1>>, acessibilidade |-> <<0, 1>>]

Blank ==
    [descr |-> {}, mapa |-> <<>>, acessos |-> {}, excecao |-> "",
     kpi |-> NoKpi, indicador |-> "", avisos |-> {}]

\* one describe table of the front page, lines 359-364 and 370-375
Describe(c, q) ==
    LET r == run_query(c, q)
    IN  [cache |-> r.cache, chamada |-> r.chamada, shown |-> ~Empty(r.df)]

\* section 'Página Inicial', lines 353-375
PaginaInicialView(c, view, sel) ==
    LET a == Describe(c, "censo")
        b == Describe(a.cache, "ideb")
    IN  [cache |-> b.cache, chamadas |-> <<a.chamada, b.chamada>>,
         tela |-> [Blank EXCEPT
                     !.descr = {q \in {"censo", "ideb"} :
                                   IF q = "censo" THEN a.shown ELSE b.shown},
                     !.avisos = {q \in {"censo", "ideb"} :
                                   IF q = "censo" THEN ~a.shown ELSE ~b.shown}]]

\* the thresholds taken inclusive
get_color_inclusive(nota) ==
    IF IsNull(nota) THEN <<200, 200, 200, 100>>
    ELSE IF nota.n <= 580 THEN <<220, 53, 69, 160>>
    ELSE IF nota.n <= 650 THEN <<255, 193, 7, 160>>
    ELSE <<40, 167, 69, 160>>

\* lines 397-401, scores in hundredths
get_color(nota) ==
    IF IsNull(nota) THEN <<200, 200, 200, 100>>
    ELSE IF nota.n < 580 THEN <<220, 53, 69, 160>>
    ELSE IF nota.n < 650 THEN <<255, 193, 7, 160>>
    ELSE <<40, 167, 69, 160>>

\* lines 391-404: rows without geometry or score are dropped, the rest coloured
MapData(df_mapa) ==
    LET kept == SelectSeq(df_mapa.rows,
                          LAMBDA r : ~IsNull(r.geometry) /\ ~IsNull(r.nota_ideb))
    IN  [i \in 1..Len(kept) |->
            [municipio |-> kept[i].municipio, nota_ideb |-> kept[i].nota_ideb,
             cor |-> get_color(kept[i].nota_ideb)]]

\* section 'Visão Geral', lines 377-459: the map, then the two rankings, which
\* index 'Nota IDEB 2023' of the view whatever the view holds
VisaoGeralView(c, view, sel) ==
    LET r == run_query(c, "mapa")
        shown == ~Empty(r.df)
    IN  [cache |-> r.cache, chamadas |-> <<r.chamada>>,
         tela |-> [Blank EXCEPT
                     !.mapa = IF shown THEN MapData(r.df) ELSE <<>>,
                     !.avisos = IF shown THEN {} ELSE {"mapa"},
                     !.acessos = IF "Nota IDEB 2023" \in view.cols
                                 THEN {"nlargest", "nsmallest"} ELSE {"nlargest"},
                     !.excecao = IF "Nota IDEB 2023" \in view.cols
                                 THEN "" ELSE "KeyError"]]

\* lines 466-470
total_escolas(view) == Sum(view, "Total de Escolas")

avg_internet(view) == Mean(view, "% Escolas com Internet")

Share(view, c) ==
    IF total_escolas(view) > 0 THEN <<Sum(view, c) * 100, total_escolas(view)>>
    ELSE <<0, 1>>

avg_lab(view) == Share(view, "Nº Escolas c/ Lab. de Informática")

avg_quadra(view) == Share(view, "Nº Escolas c/ Quadra")

avg_acessibilidade(view) == Share(view, "Nº Escolas c/ Acessibilidade")

\* section 'Análise de Infraestrutura', lines 461-494
InfraestruturaView(c, view, sel) ==
    [cache |-> c, chamadas |-> <<>>,
     tela |-> IF ~Empty(view)
              THEN [Blank EXCEPT
                      !.kpi = [mostra |-> TRUE, internet |-> avg_internet(view),
                               lab |-> avg_lab(view), quadra |-> avg_quadra(view),
                               acessibilidade |-> avg_acessibilidade(view)],
                      !.acessos = {"sum", "mean", "histogram"}]
              ELSE [Blank EXCEPT !.avisos = {"infraestrutura"}]]

\* line 504: label -> internal identifier of the four selectable indicators
opcoes_correlacao ==
    LET ks == {"pct_escolas_com_internet", "alunos_por_turma", "alunos_por_docente",
               "tx_aprov_2023_1_ao_5_ano"}
    IN  [l \in {friendly_names[k] : k \in ks} |->
            CHOOSE k \in ks : friendly_names[k] = l]

\* section 'Análise de Correlação', lines 496-526
CorrelacaoView(c, view, sel, indicador) ==
    [cache |-> c, chamadas |-> <<>>,
     tela |-> IF ~Empty(view)
              THEN [Blank EXCEPT !.indicador = indicador,
                                 !.acessos = {"scatter", "corr"}]
              ELSE [Blank EXCEPT !.indicador = indicador,
                                 !.avisos = {"correlacao"}]]

\* line 535
indicadores_comparacao_friendly ==
    {"Nota IDEB 2023", "% Escolas com Internet", "Média de Alunos por Turma",
     "Média de Alunos por Docente"}

\* section 'Análise Comparativa', lines 528-552
ComparativaView(c, view, sel, indicador) ==
    [cache |-> c, chamadas |-> <<>>,
     tela |-> IF Cardinality(sel) < 2
              THEN [Blank EXCEPT !.avisos = {"comparativa"}]
              ELSE [Blank EXCEPT
                      !.indicador = indicador,
                      !.acessos = {"comparativo"},
                      !.excecao = IF {"Município", indicador} \subseteq view.cols
                                  THEN "" ELSE "KeyError"]]

\* section 'Dados Detalhados', lines 554-563
DetalhadosView(c, view, sel) ==
    [cache |-> c, chamadas |-> <<>>,
     tela |-> IF ~Empty(view)
              THEN [Blank EXCEPT !.acessos = {"tabela"}]
              ELSE [Blank EXCEPT !.avisos = {"detalhados"}]]

(***************************** script runs ********************************)
\* One run of the script, top to bottom (Streamlit reruns it on every
\* interaction): load, sidebar, filter, then the section chosen.
Script(sec, sel, l, r) ==
    /\ sel \in Selections(l.df_completo)
    /\ df' = l.df
    /\ df_completo' = l.df_completo
    /\ municipios_selecionados' = sel
    /\ df_filtrado' = Filter(l.df_completo, sel)
    /\ secao' = sec
    /\ cache' = r.cache
    /\ tela' = r.tela
    /\ chamadas' = l.chamadas \o r.chamadas
    /\ UNCHANGED <<warehouse, falha, now>>

PaginaInicial ==
    LET l == load_and_prepare_data(cache)
    IN  \E sel \in Selections(l.df_completo) :
            Script("Página Inicial", sel, l,
                   PaginaInicialView(l.cache, Filter(l.df_completo, sel), sel))

VisaoGeral ==
    LET l == load_and_prepare_data(cache)
    IN  \E sel \in Selections(l.df_completo) :
            Script("Visão Geral", sel, l,
                   VisaoGeralView(l.cache, Filter(l.df_completo, sel), sel))

AnaliseInfraestrutura ==
    LET l == load_and_prepare_data(cache)
    IN  \E sel \in Selections(l.df_completo) :
            Script("Análise de Infraestrutura", sel, l,
                   InfraestruturaView(l.cache, Filter(l.df_completo, sel), sel))

AnaliseCorrelacao ==
    LET l == load_and_prepare_data(cache)
    IN  \E sel \in Selections(l.df_completo), ind \in DOMAIN opcoes_correlacao :
            Script("Análise de Correlação", sel, l,
                   CorrelacaoView(l.cache, Filter(l.df_completo, sel), sel, ind))

AnaliseComparativa ==
    LET l == load_and_prepare_data(cache)
    IN  \E sel \in Selections(l.df_completo), ind \in indicadores_comparacao_friendly :
            Script("Análise Comparativa", sel, l,
                   ComparativaView(l.cache, Filter(l.df_completo, sel), sel, ind))

DadosDetalhados ==
    LET l == load_and_prepare_data(cache)
    IN  \E sel \in Selections(l.df_completo) :
            Script("Dados Detalhados", sel, l,
                   DetalhadosView(l.cache, Filter(l.df_completo, sel), sel))

\* the warehouse starts or stops failing
Warehouse ==
    /\ \E f \in Falhas \ {falha} : falha' = f
    /\ UNCHANGED <<warehouse, now, cache, df, df_completo, municipios_selecionados,
                   df_filtrado, secao, tela, chamadas>>

\* time passes between two interactions, a cache window at a time
Tick ==
    /\ now + TTL <= MaxTime
    /\ now' = now + TTL
    /\ UNCHANGED <<warehouse, falha, cache, df, df_completo, municipios_selecionados,
                   df_filtrado, secao, tela, chamadas>>

Session ==
    /\ falha = "nenhuma"
    /\ now = 0
    /\ cache = [k \in CacheKeys |-> NoEntry]
    /\ df = EmptyDF
    /\ df_completo = EmptyDF
    /\ municipios_selecionados = {}
    /\ df_filtrado = EmptyDF
    /\ secao = "Página Inicial"
    /\ tela = Blank
    /\ chamadas = <<>>

\* the dashboard over a fixed warehouse, with failures and the clock
Init ==
    /\ ideb_table \in {<<>>, AmostraIdeb}
    /\ censo_table = AmostraCenso
    /\ mapa_table = MapaES
    /\ Session

Run ==
    \/ PaginaInicial
    \/ VisaoGeral
    \/ AnaliseInfraestrutura
    \/ AnaliseCorrelacao
    \/ AnaliseComparativa
    \/ DadosDetalhados

Next ==
    \/ Run
    \/ Warehouse
    \/ Tick

Spec == Init /\ [][Next]_vars

\* the data pipeline over every pair of small tables, the warehouse answering
InitDados ==
    /\ ideb_table \in SeqsUpTo(IdebRows, MaxIdeb)
    /\ censo_table \in SeqsUpTo(CensoRows, MaxCenso)
    /\ mapa_table = MapaES
    /\ Session

\* the two sections that show the base dataset's figures
RunDados ==
    \/ AnaliseInfraestrutura
    \/ DadosDetalhados

SpecDados == InitDados /\ [][RunDados]_vars

\* time passes between two interactions, half a cache window at a time
HalfTick ==
    /\ now + (TTL \div 2) <= MaxTime
    /\ now' = now + (TTL \div 2)
    /\ UNCHANGED <<warehouse, falha, cache, df, df_completo, municipios_selecionados,
                   df_filtrado, secao, tela, chamadas>>

InitCache ==
    /\ ideb_table = AmostraIdeb
    /\ censo_table = AmostraCenso
    /\ mapa_table = MapaES
    /\ Session

\* the sections that query the warehouse themselves and one that does not,
\* with failures and a clock that also reads inside a cache window
NextCache ==
    \/ PaginaInicial
    \/ VisaoGeral
    \/ DadosDetalhados
    \/ Warehouse
    \/ HalfTick

SpecCache == InitCache /\ [][NextCache]_vars

(***************************** properties *********************************)
Count(q, r) == Cardinality({i \in DOMAIN q : q[i] = r})

\* two fractions <<numerator, denominator>> name the same number
RatEq(a, b) == a[2] # 0 /\ b[2] # 0 /\ a[1] * b[2] = b[1] * a[2]

\* C1: when the base dataset is the empty frame of a failed query, the view is
\* empty and the section rendered reaches no statistic or column access on it
\* and raises nothing.
C1_EmptyViewGuarded ==
    df_completo = EmptyDF =>
        /\ Empty(df_filtrado)
        /\ tela.acessos = {}
        /\ tela.excecao = ""

\* C2: a run_query call whose warehouse query failed returned an empty
\* dataset, let no exception out and submitted the query exactly once.
C2_FailureEmptyOnce ==
    \A i \in DOMAIN chamadas :
        chamadas[i].falhou =>
            /\ chamadas[i].vazio
            /\ ~chamadas[i].raised
            /\ chamadas[i].submits = 1

C2_Witness ==
    \E i \in DOMAIN chamadas :
        /\ chamadas[i].falhou
        /\ chamadas[i].query = "mapa"
        /\ Empty(cache["mapa"].valor)
        /\ "mapa" \in tela.avisos

\* C3: with no municipality selected the filtered view is the base dataset,
\* row for row.
C3_EmptySelection ==
    municipios_selecionados = {} =>
        /\ df_filtrado = df_completo
        /\ Len(df_filtrado.rows) = Len(df_completo.rows)

C3_Witness ==
    /\ municipios_selecionados = {}
    /\ secao = "Dados Detalhados"
    /\ Len(df_completo.rows) = 2
    /\ Len(df_filtrado.rows) = 2

\* the view holds exactly the base rows whose name is selected
ExactlySelected ==
    /\ \A i \in DOMAIN df_filtrado.rows :
          df_filtrado.rows[i]["Município"] \in municipios_selecionados
    /\ \A r \in Range(df_completo.rows) :
          r["Município"] \in municipios_selecionados =>
              Count(df_filtrado.rows, r) = Count(df_completo.rows, r)

\* C4 as stated: a non-empty selection yields exactly the rows whose name is
\* selected, and a selection of one name yields exactly one row.
C4_OneNameOneRow ==
    municipios_selecionados # {} =>
        /\ ExactlySelected
        /\ Cardinality(municipios_selecionados) = 1 => Len(df_filtrado.rows) = 1

\* C4 amended: a non-empty selection yields exactly the rows whose name is
\* selected; a selection of one name yields at least one row, and exactly one
\* when a single row of the base dataset bears that name.
C4_SelectedRows ==
    municipios_selecionados # {} =>
        /\ ExactlySelected
        /\ Cardinality(municipios_selecionados) = 1 =>
              /\ Len(df_filtrado.rows) >= 1
              /\ Cardinality({i \in DOMAIN df_completo.rows :
                     df_completo.rows[i]["Município"] \in municipios_selecionados}) = 1
                 => Len(df_filtrado.rows) = 1

C4_Witness ==
    /\ Cardinality(municipios_selecionados) = 1
    /\ Len(df_completo.rows) = 2
    /\ Len(df_filtrado.rows) = 1
    /\ df_filtrado.rows[1]["Município"] \in municipios_selecionados

\* sum of a facility count over the view / sum of the totals over the view * 100
ShareOfTotal(c) == <<Sum(df_filtrado, c) * 100, Sum(df_filtrado, "Total de Escolas")>>

\* C5: each of the four percentages shown by the infrastructure section is
\* the view's sum of the facility count over the view's sum of the total
\* school count, times 100.
C5_IndicatorsAreShares ==
    tela.kpi.mostra /\ Sum(df_filtrado, "Total de Escolas") > 0 =>
        /\ RatEq(tela.kpi.internet, ShareOfTotal("Nº Escolas c/ Internet"))
        /\ RatEq(tela.kpi.lab, ShareOfTotal("Nº Escolas c/ Lab. de Informática"))
        /\ RatEq(tela.kpi.quadra, ShareOfTotal("Nº Escolas c/ Quadra"))
        /\ RatEq(tela.kpi.acessibilidade, ShareOfTotal("Nº Escolas c/ Acessibilidade"))

\* C6: when the view's total school count sums to zero, each of the four
\* percentages shown is exactly 0, never NaN.
C6_ZeroTotalShowsZero ==
    tela.kpi.mostra /\ Sum(df_filtrado, "Total de Escolas") = 0 =>
        /\ RatEq(tela.kpi.internet, <<0, 1>>)
        /\ RatEq(tela.kpi.lab, <<0, 1>>)
        /\ RatEq(tela.kpi.quadra, <<0, 1>>)
        /\ RatEq(tela.kpi.acessibilidade, <<0, 1>>)

\* C7: every score on the map is red below 5.8, yellow from 5.8 up to but
\* not including 6.5, green from 6.5 on.
C7_ColorBuckets ==
    \A i \in DOMAIN tela.mapa :
        LET nota == tela.mapa[i].nota_ideb.n
            cor == tela.mapa[i].cor
        IN  /\ nota < 580 <=> cor = <<220, 53, 69, 160>>
            /\ (580 <= nota /\ nota < 650) <=> cor = <<255, 193, 7, 160>>
            /\ nota >= 650 <=> cor = <<40, 167, 69, 160>>

C7_Witness ==
    /\ Len(tela.mapa) = 4
    /\ [i \in 1..4 |-> tela.mapa[i].nota_ideb.n] = <<579, 580, 649, 650>>
    /\ [i \in 1..4 |-> tela.mapa[i].cor] =
           <<(<<220, 53, 69, 160>>), (<<255, 193, 7, 160>>),
             (<<255, 193, 7, 160>>), (<<40, 167, 69, 160>>)>>

\* the part of a joined row that comes from ideb_2023
IdebPart(row) == [c \in IdebCols |-> row[c]]

\* the code of a row as text, NULL when there is none
CodeText(row) == CastString(row["cod_munic"])

Unmatched(r1) ==
    \/ IsNull(r1["cod_munic"])
    \/ \A k \in DOMAIN censo_table :
          \/ IsNull(censo_table[k]["cod_munic"])
          \/ CodeText(censo_table[k]) # CodeText(r1)

\* C8: every row of ideb_2023 is in the joined dataset, and a row whose code
\* matches no censo_2023 code as text is there with every censo field null.
C8_LeftJoin ==
    df.cols # {} =>
        /\ \A r1 \in Range(ideb_table) :
              Cardinality({j \in DOMAIN df.rows : IdebPart(df.rows[j]) = r1})
                  >= Count(ideb_table, r1)
        /\ \A r1 \in Range(ideb_table) :
              Unmatched(r1) =>
                  \A j \in DOMAIN df.rows :
                      IdebPart(df.rows[j]) = r1 =>
                          \A c \in CensoSelect : IsNull(df.rows[j][c])

C8_Witness ==
    /\ df.cols # {}
    /\ Len(ideb_table) = 2
    /\ Len(df.rows) = 2
    /\ \E r1 \in Range(ideb_table) : Unmatched(r1)
    /\ \E j \in DOMAIN df.rows : ~IsNull(df.rows[j]["total_estimar_escolas"])

CodesPresentAndUnique ==
    /\ \A j \in DOMAIN df.rows : ~IsNull(df.rows[j]["cod_munic"])
    /\ \A j, k \in DOMAIN df.rows :
          j # k => df.rows[j]["cod_munic"] # df.rows[k]["cod_munic"]

\* every row of the table has a code and no two rows have the same code as text
Keyed(t) ==
    /\ \A i \in DOMAIN t : ~IsNull(t[i]["cod_munic"])
    /\ \A i, k \in DOMAIN t : i # k => CodeText(t[i]) # CodeText(t[k])

\* C9 as stated: whatever the two tables hold, every row of the joined
\* dataset has a code and no two rows share one.
C9_CodePresentUnique == CodesPresentAndUnique

\* C9 amended: when each of the two tables is keyed by municipality code,
\* every row of the joined dataset has a code and no two rows share one.
C9_KeyedTables ==
    Keyed(ideb_table) /\ Keyed(censo_table) => CodesPresentAndUnique

C9_Witness ==
    /\ Keyed(ideb_table)
    /\ Keyed(censo_table)
    /\ Len(censo_table) = 2
    /\ Len(df.rows) = 2

\* blanks, then one or more digits, then blanks
IsNumberText(s) ==
    \E lo, hi \in 1..Len(s) :
        /\ lo <= hi
        /\ \A i \in 1..Len(s) :
              IF lo <= i /\ i <= hi THEN IsDigit(s[i]) ELSE s[i] = " "

\* C10: in every listed numeric column a value that does not parse as a
\* number is null after coercion and a number stays what it was; no row is
\* added or removed; every other column holds what the query returned.
C10_Coercion ==
    /\ Len(df_completo.rows) = Len(df.rows)
    /\ \A i \in DOMAIN df.rows : \A c \in df.cols :
          LET raw == df.rows[i][c]
              out == df_completo.rows[i][Label(c)]
          IN  IF c \in numeric_cols
              THEN /\ out.t \in {"num", "null"}
                   /\ raw.t = "num" => out = raw
                   /\ raw.t = "null" => IsNull(out)
                   /\ raw.t = "str" /\ ~IsNumberText(raw.s) => IsNull(out)
                   /\ raw.t = "str" /\ IsNumberText(raw.s) => out.t = "num"
              ELSE out = raw

C10_Witness ==
    /\ Len(df_completo.rows) = 2
    /\ \E i \in DOMAIN df.rows :
          /\ df.rows[i]["escolas_com_lab_informatica"] = Str(<<"x">>)
          /\ IsNull(df_completo.rows[i]["Nº Escolas c/ Lab. de Informática"])
          /\ df.rows[i]["escolas_com_internet"] = Str(<<" ", "7">>)
          /\ df_completo.rows[i]["Nº Escolas c/ Internet"] = Num(7)
          /\ df_completo.rows[i]["Município"] = df.rows[i]["nome_munic"]

\* C11: renaming an internal identifier of the catalog to its label and
\* looking the label up in reverse gives the identifier back: no two
\* identifiers share a label; so for every column the query returned and for
\* the indicator chosen in the correlation section.
C11_RenameRoundTrip ==
    /\ \A k \in DOMAIN friendly_names : ReverseLookup(friendly_names[k]) = k
    /\ \A k, m \in DOMAIN friendly_names :
          friendly_names[k] = friendly_names[m] => k = m
    /\ \A c \in df.cols :
          /\ Label(c) \in df_completo.cols
          /\ c \in DOMAIN friendly_names => ReverseLookup(Label(c)) = c
    /\ secao = "Análise de Correlação" =>
          /\ tela.indicador \in DOMAIN opcoes_correlacao
          /\ friendly_names[opcoes_correlacao[tela.indicador]] = tela.indicador
          /\ ReverseLookup(tela.indicador) = opcoes_correlacao[tela.indicador]

C11_Witness ==
    /\ secao = "Análise de Correlação"
    /\ tela.indicador = "Média de Alunos por Turma"
    /\ opcoes_correlacao[tela.indicador] = "alunos_por_turma"
    /\ "alunos_por_turma" \in df.cols
    /\ "Média de Alunos por Turma" \in df_completo.cols
    /\ "scatter" \in tela.acessos

\* a step that is one run of the script: the clock and the warehouse stand
ScriptStep == now' = now /\ falha' = falha

\* the entry of key k answers in the state the step starts from
InWindow(k) == cache[k].tem /\ now - cache[k].em < TTL

JoinCalled == \E i \in DOMAIN chamadas' : chamadas'[i].query = "join"

\* C12: a fetch whose key has an entry less than 3600 s old is answered with
\* that entry and submits nothing to the warehouse; a fetch with no entry, or
\* with one 3600 s old or older, is executed again and stored at this time.
\* For load_and_prepare_data and for every run_query call of the run.
C12_TimeBoundedCache ==
    [][ScriptStep =>
        /\ IF InWindow("load_and_prepare_data")
           THEN /\ df_completo' = cache["load_and_prepare_data"].valor
                /\ cache'["load_and_prepare_data"] = cache["load_and_prepare_data"]
                /\ ~JoinCalled
           ELSE /\ cache'["load_and_prepare_data"] =
                       [tem |-> TRUE, valor |-> df_completo', em |-> now]
                /\ JoinCalled
        /\ \A i \in DOMAIN chamadas' :
              LET call == chamadas'[i]
                  q == call.query
              IN  IF InWindow(q)
                  THEN /\ call.hit
                       /\ call.submits = 0
                       /\ cache'[q] = cache[q]
                  ELSE /\ ~call.hit
                       /\ call.submits = 1
                       /\ cache'[q].tem
                       /\ cache'[q].em = now
    ]_vars

\* a run at 3600 s: the map query stored at 1800 s is answered from the cache,
\* the join stored at 0 s has expired and is executed again
C12_Witness ==
    /\ now = TTL
    /\ Len(chamadas) = 2
    /\ chamadas[1].query = "join"
    /\ ~chamadas[1].hit
    /\ chamadas[1].submits = 1
    /\ cache["join"].em = TTL
    /\ chamadas[2].query = "mapa"
    /\ chamadas[2].hit
    /\ chamadas[2].submits = 0
    /\ cache["mapa"].em = TTL \div 2

\* C13: coercion runs before the rename: every column of numeric_cols the
\* query returned is gone under its internal identifier and present under
\* its display label, where every row holds what to_numeric made of the raw
\* value, a number or null and never text.
C13_CoerceBeforeRename ==
    \A k \in numeric_cols \cap df.cols :
        /\ k \in DOMAIN friendly_names
        /\ k \notin df_completo.cols
        /\ friendly_names[k] \in df_completo.cols
        /\ \A i \in DOMAIN df_completo.rows :
              /\ df_completo.rows[i][friendly_names[k]].t \in {"num", "null"}
              /\ df_completo.rows[i][friendly_names[k]] = ToNumeric(df.rows[i][k])

\* a row whose counts came as text: the parseable one is a number and the
\* unparseable ones are null under the display labels
C13_Witness ==
    /\ "total_estimar_escolas" \in df.cols
    /\ "Total de Escolas" \in df_completo.cols
    /\ \E i \in DOMAIN df_completo.rows :
          /\ df.rows[i]["total_estimar_escolas"] = Str(<<"1", "0">>)
          /\ df_completo.rows[i]["Total de Escolas"] = Num(10)
          /\ df.rows[i]["tx_aprov_2023_1_ao_5_ano"] = Str(<<"9", "x">>)
          /\ IsNull(df_completo.rows[i]["Taxa de Aprovação (1º-5º ano)"])
          /\ df.rows[i]["alunos_por_turma"] = Str(<<" ">>)
          /\ IsNull(df_completo.rows[i]["Média de Alunos por Turma"])

\* C14: over an empty base dataset the selection is the empty set and the
\* filtered view is the base itself, so the name column is indexed only in a
\* dataset that has it; over a non-empty base every selected name is one of
\* the distinct names of the base.
C14_SelectionWithinBase ==
    /\ Empty(df_completo) =>
          /\ municipios_selecionados = {}
          /\ df_filtrado = df_completo
    /\ municipios_selecionados # {} => "Município" \in df_completo.cols
    /\ ~Empty(df_completo) =>
          municipios_selecionados \subseteq
              {df_completo.rows[i]["Município"] : i \in DOMAIN df_completo.rows}

\* a run whose join failed: the base has no name column and nothing is selected
C14_Witness ==
    /\ secao = "Análise Comparativa"
    /\ Len(chamadas) >= 1
    /\ chamadas[1].query = "join"
    /\ chamadas[1].falhou
    /\ "Município" \notin df_completo.cols
    /\ municipios_selecionados = {}
    /\ df_filtrado = EmptyDF

\* the entry of key k holds the empty dataset a failed query returned (a
\* query that succeeds returns a frame with its columns)
FailureStored(k) == cache[k].tem /\ cache[k].valor = EmptyDF

\* C15: the empty result of a failed query is stored like a successful one:
\* the failing call leaves an entry with the empty dataset at the current
\* time; while that entry is younger than 3600 s an identical request gets
\* the empty dataset and submits nothing, whether or not the warehouse
\* answers again; once it is 3600 s old the query is submitted again.
C15_FailureCached ==
    [][ScriptStep =>
        /\ \A i \in DOMAIN chamadas' :
              LET call == chamadas'[i]
                  q == call.query
              IN  /\ call.falhou =>
                        cache'[q] = [tem |-> TRUE, valor |-> EmptyDF, em |-> now]
                  /\ FailureStored(q) =>
                        IF now - cache[q].em < TTL
                        THEN /\ call.hit
                             /\ call.vazio
                             /\ ~call.falhou
                             /\ call.submits = 0
                             /\ cache'[q] = cache[q]
                        ELSE /\ ~call.hit
                             /\ call.submits = 1
                             /\ call.falhou = (falha # "nenhuma")
        /\ FailureStored("load_and_prepare_data") =>
              IF now - cache["load_and_prepare_data"].em < TTL
              THEN /\ df_completo' = EmptyDF
                   /\ ~JoinCalled
              ELSE JoinCalled
    ]_vars

\* the map query failed at 0 s; half a window later the warehouse answers
\* again and the request is still served the cached empty dataset
C15_Witness ==
    /\ falha = "nenhuma"
    /\ now = TTL \div 2
    /\ secao = "Visão Geral"
    /\ cache["mapa"] = [tem |-> TRUE, valor |-> EmptyDF, em |-> 0]
    /\ \E i \in DOMAIN chamadas :
          /\ chamadas[i].query = "mapa"
          /\ chamadas[i].hit
          /\ chamadas[i].vazio
          /\ chamadas[i].submits = 0
    /\ "mapa" \in tela.avisos

====
